---- MODULE Spec2Model ----
(***************************************************************************)
(* Model of the RAG backend: the incremental indexer (run_indexing over    *)
(* load_documents_lazy and the incremental index step), document deletion  *)
(* (delete_document and its DELETE endpoint) and the streamed answer        *)
(* generator (generate_answer_stream).                                      *)
(*                                                                         *)
(* Abstractions.  A file's text is a sequence of paragraphs, each the size  *)
(* of one chunk; a paragraph is a natural number.  The batch size of        *)
(* run_indexing (100) is scaled down to BatchSize.  The record manager's    *)
(* timestamps are not kept: every index step reads the time when it begins  *)
(* and refreshes the records of its batch, so "updated before the step      *)
(* began" is "tied to a source of the batch and not in the batch".          *)
(*                                                                         *)
(* The endpoints run on the event loop; each background indexing task runs *)
(* in a thread of the pool.  The specifications in sequential operation    *)
(* let a request arrive when no task is queued or running; SpecConcurrent  *)
(* and SpecRace let the tasks overlap each other and a deletion.           *)
(***************************************************************************)
EXTENDS Integers, Sequences, FiniteSets, TLC

(***************************** bounds ***************************************)
\* run_indexing's batch size ("if len(batch) >= 100"), scaled down: nothing
\* in the code depends on the number but the place where a batch is cut.
BatchSize == 2
\* Uploads a behaviour may perform (each sets a new modification time).
MaxUploads == 2
\* Background indexing tasks a behaviour may queue (uploads included).
MaxRuns == MaxUploads
\* Chunks a stream of the chat model may hold.
MaxFragments == 3

(************************* program constants ********************************)
\* Number of paragraphs of the long document: one more than a batch holds.
BigLen == BatchSize + 1

NoFile == "nofile"
NoPage == -1

\* settings.data_dir, and a directory that does not exist.
DataDir == "data"
MissingDir == "missing"

\* The uploaded documents.
FileNames == {"a.txt", "b.pdf"}
\* Entries of the data directory that are always there: a file with an
\* extension LOADER_MAP does not know and a subdirectory.
FixedEntries == {"notes.bin", "sub"}
\* The names of the directory in lexicographic order: sorted(iterdir()).
DirOrder == <<"a.txt", "b.pdf", "notes.bin", "sub">>

Suffix(name) ==
    CASE name = "a.txt" -> ".txt"
      [] name = "b.pdf" -> ".pdf"
      [] name = "notes.bin" -> ".bin"
      [] OTHER -> ""

IsDir(name) == name = "sub"

LOADER_MAP == {".txt", ".pdf", ".csv", ".md"}

\* The texts a document may hold.
Big == [i \in 1..BigLen |-> i]
SmallContents == {<<1>>, <<1, 2>>}

DefaultPair == [category |-> "other", department |-> "all"]
OtherPair == [category |-> "manual", department |-> "hr"]

(***************************** helpers **************************************)
Min(a, b) == IF a < b THEN a ELSE b

Range(s) == {s[i] : i \in 1..Len(s)}

Take(s, n) == SubSeq(s, 1, Min(n, Len(s)))

Drop(s, n) == SubSeq(s, Min(n, Len(s)) + 1, Len(s))

RECURSIVE Flatten(_)
Flatten(ss) == IF ss = <<>> THEN <<>> ELSE Head(ss) \o Flatten(Tail(ss))

(**************************** the loader ************************************)
\* loader.load(): TextLoader gives one document holding the whole text and
\* no page; PyPDFLoader gives one document per page, numbered from 0.
LoaderLoad(name, content) ==
    IF Suffix(name) = ".pdf"
    THEN [i \in 1..Len(content) |-> [text |-> <<content[i]>>, page |-> i - 1]]
    ELSE <<[text |-> content, page |-> NoPage]>>

\* text_splitter.split_documents: every document is cut into its chunks,
\* each chunk keeping the metadata of the document it comes from.
SplitDocuments(docs) ==
    Flatten([d \in 1..Len(docs) |->
        [i \in 1..Len(docs[d].text) |->
            [text |-> docs[d].text[i], page |-> docs[d].page]]])

MakeChunkPageZero(name, mtime, inferred, piece) ==
    [source |-> name,
     text |-> piece.text,
     page |-> 0,
     file_type |-> Suffix(name),
     created_at |-> mtime,
     category |-> inferred.category,
     department |-> inferred.department]

\* The metadata load_documents_lazy puts on one chunk: the page is set only
\* when the loader set none (setdefault).
MakeChunk(name, mtime, inferred, piece) ==
    [source |-> name,
     text |-> piece.text,
     page |-> IF piece.page = NoPage THEN 0 ELSE piece.page,
     file_type |-> Suffix(name),
     created_at |-> mtime,
     category |-> inferred.category,
     department |-> inferred.department]

\* The chunks load_documents_lazy yields for one loaded file.
FileChunks(name, file, inferred) ==
    LET pieces == SplitDocuments(LoaderLoad(name, file.content))
    IN  [i \in 1..Len(pieces) |-> MakeChunk(name, file.mtime, inferred, pieces[i])]

(********************** the metadata inferencer *****************************)
\* What the chat model may answer to _infer_metadata's request: the call
\* raises or times out, the answer is no JSON, it is JSON but no object (a
\* list), or it is a JSON object holding both keys, the category only, or
\* none of them.
LLMReplies == {"raise", "timeout", "malformed", "non_object",
               "object_full", "object_partial", "object_empty"}

\* Whether a step inside the try block of _infer_metadata raises: the
\* invocation itself, json.loads on a text that is no JSON, or result.get
\* on a value that is no object.
InferFailed(reply) == reply \in {"raise", "timeout", "malformed", "non_object"}

InferMetadataTrustsReply(reply) ==
    IF reply \in {"raise", "timeout"} THEN DefaultPair ELSE OtherPair

\* _infer_metadata: any exception gives the default pair; a missing key of
\* the parsed object gets its default (result.get(key, default)).
InferMetadata(reply) ==
    IF InferFailed(reply) THEN DefaultPair
    ELSE CASE reply = "object_full" -> OtherPair
           [] reply = "object_partial" ->
                [category |-> OtherPair.category, department |-> DefaultPair.department]
           [] OTHER -> DefaultPair

(*********************** the incremental index step *************************)
\* The key of a document in the record manager and its id in the vector
\* store: a hash of the page content and of the whole metadata.
IndexKey(c) ==
    <<c.text, c.source, c.page, c.file_type, c.created_at, c.category, c.department>>

Keys(docs) == {IndexKey(c) : c \in docs}

\* Where an index step may raise: in the vector store's add (embedding or
\* upsert), in the record manager's update, in its list_keys, in the vector
\* store's delete or in the record manager's delete_keys; or nowhere.
FailPoints == {"none", "add", "update", "list", "vs_delete", "rm_delete"}

Stage(p) ==
    CASE p = "add" -> 1
      [] p = "update" -> 2
      [] p = "list" -> 3
      [] p = "vs_delete" -> 4
      [] p = "rm_delete" -> 5
      [] OTHER -> 6

\* index(batch, record_manager, vectorstore, cleanup="incremental",
\* source_id_key="source"), raising at failAt.  Documents whose key the
\* record manager knows are skipped, the others are written to the vector
\* store; the records of all of them are refreshed; then every record tied
\* to a source of the batch that this step did not refresh is deleted, from
\* the vector store first.  vs is the set of stored documents (the id of a
\* document is its key), rm the set of <<key, group>> records.
Index(batch, vs, rm, failAt) ==
    LET docs == Range(batch)
        source_ids == {c.source : c \in docs}
        known == {r[1] : r \in rm}
        docs_to_index == {c \in docs : IndexKey(c) \notin known}
        vs1 == IF Stage(failAt) > 1 THEN vs \cup docs_to_index ELSE vs
        rm1 == IF Stage(failAt) > 2
               THEN rm \cup {<<IndexKey(c), c.source>> : c \in docs}
               ELSE rm
        refreshed == Keys(docs)
        uids_to_delete ==
            IF Stage(failAt) > 3
            THEN {r[1] : r \in {x \in rm1 : x[2] \in source_ids /\ x[1] \notin refreshed}}
            ELSE {}
        vs2 == IF Stage(failAt) > 4
               THEN {c \in vs1 : IndexKey(c) \notin uids_to_delete}
               ELSE vs1
        rm2 == IF Stage(failAt) > 5
               THEN {x \in rm1 : x[1] \notin uids_to_delete}
               ELSE rm1
    IN  [ok |-> failAt = "none",
         vs |-> vs2,
         rm |-> rm2,
         num_added |-> Cardinality(docs_to_index),
         num_updated |-> 0,
         num_deleted |-> Cardinality(uids_to_delete)]

BatchCountersEarly(total_indexed, errors, res) ==
    [total_indexed |-> total_indexed + res.num_added + res.num_updated,
     errors |-> IF res.ok THEN errors ELSE errors + 1]

\* The counters of run_indexing after one index step: a step that raised
\* counts one error, one that returned adds num_added + num_updated.
BatchCounters(total_indexed, errors, res) ==
    IF res.ok
    THEN [total_indexed |-> total_indexed + res.num_added + res.num_updated,
          errors |-> errors]
    ELSE [total_indexed |-> total_indexed, errors |-> errors + 1]

\* The loop body of run_indexing appends the chunks of the generator to the
\* batch until the batch holds BatchSize chunks.
Fill(batch, cur) ==
    LET n == Min(BatchSize - Len(batch), Len(cur))
    IN  [batch |-> batch \o Take(cur, n), cur |-> Drop(cur, n)]

NextPcNoRemainder(batch, listing) ==
    IF Len(batch) >= BatchSize THEN "index"
    ELSE IF listing # <<>> THEN "scan"
    ELSE "ret"

\* What the loader's "except Exception: continue" leaves of the listing.
LoadFailureEndsScan(rest) == <<>>

AfterLoadFailure(rest) == rest

\* Where run_indexing goes on: to the index step of a full batch, to the
\* next file of the scan, to the final partial batch, or to its return.
NextPc(batch, listing) ==
    IF Len(batch) >= BatchSize THEN "index"
    ELSE IF listing # <<>> THEN "scan"
    ELSE IF batch # <<>> THEN "final"
    ELSE "ret"

(******************************* state **************************************)
VARIABLES
    fs,         \* the data directory: for each name, the file or its absence
    clock,      \* the number of uploads so far: the next modification time
    tasks,      \* the queued background tasks: the directory of each
    vs,         \* the vector store: the documents it holds
    rm,         \* the record manager: its <<key, group>> records
    run,        \* the state of each run_indexing execution
    prev,       \* what the last finished run was like (history)
    queued,     \* the number of background tasks queued so far
    del,        \* the state of the DELETE request being served
    qs          \* the state of the answer stream of the query being served

vars == <<fs, clock, tasks, vs, rm, run, prev, queued, del, qs>>

\* The threads of the pool that runs the background tasks, and the one
\* that runs them when no two tasks exist at a time.
Workers == {"w1", "w2"}
OneWorker == {"w1"}

Absent == [present |-> FALSE, content |-> <<>>, mtime |-> 0]

IdleRun ==
    [pc |-> "idle", dir |-> DataDir, listing |-> <<>>, cur |-> <<>>,
     batch |-> <<>>, total_indexed |-> 0, errors |-> 0,
     \* the documents loader.load() returned for the file being processed
     loaded |-> [name |-> NoFile, content |-> <<>>],
     \* history: the outcome of every index step, the chunks yielded, the
     \* stores when the run began, whether a file failed to load, whether
     \* another operation changed the files or the stores meanwhile, and
     \* what the run before was like
     log |-> <<>>, produced |-> {}, nyield |-> 0, vs0 |-> {}, rm0 |-> {},
     loadfail |-> FALSE, disturbed |-> FALSE,
     base |-> [ok |-> FALSE, produced |-> {}],
     \* history: the listing the scan began with, what became of every
     \* entry visited, the chunks yielded in order, and the number of
     \* calls of _infer_metadata
     listing0 |-> <<>>, visited |-> <<>>, yielded |-> <<>>, ncalls |-> 0]

\* What the history keeps of an entry that yielded no chunk.
NoChunks(name, outcome) ==
    [name |-> name, outcome |-> outcome, failed |-> FALSE, inferred |-> DefaultPair,
     first |-> 0, n |-> 0, pages |-> <<>>]

IxInit ==
    /\ fs = [f \in FileNames |-> Absent]
    /\ clock = 0
    /\ tasks = <<>>
    /\ vs = {}
    /\ rm = {}
    /\ run = [w \in Workers |-> IdleRun]
    /\ prev = [ok |-> FALSE, produced |-> {}]
    /\ queued = 0

\* Every running execution is told that the files or the stores changed
\* under it.
Disturb(r) == [w \in Workers |->
    IF r[w].pc \in {"idle", "ret"} THEN r[w] ELSE [r[w] EXCEPT !.disturbed = TRUE]]

(******************************* requests ***********************************)
\* POST /v1/upload: the file is written under the data directory and
\* run_indexing is queued over the data directory.
Upload(name, content) ==
    /\ clock < MaxUploads
    /\ queued < MaxRuns
    /\ queued' = queued + 1
    /\ clock' = clock + 1
    /\ fs' = [fs EXCEPT ![name] = [present |-> TRUE, content |-> content, mtime |-> clock + 1]]
    /\ tasks' = Append(tasks, DataDir)
    /\ run' = Disturb(run)
    /\ prev' = [prev EXCEPT !.ok = FALSE]
    /\ UNCHANGED <<vs, rm, del, qs>>

\* POST /v1/index: run_indexing is queued over the directory of the request
\* (the data directory when the request names none).
IndexRequest(dir) ==
    /\ queued < MaxRuns
    /\ queued' = queued + 1
    /\ tasks' = Append(tasks, dir)
    /\ UNCHANGED <<fs, clock, vs, rm, run, prev, del, qs>>

(****************************** run_indexing ********************************)
\* sorted(data_dir.iterdir())
Listing == SelectSeq(DirOrder, LAMBDA n : n \in FixedEntries \/ fs[n].present)

\* The background task starts: run_indexing begins to consume
\* load_documents_lazy, which returns at once when the directory does not
\* exist and lists the directory otherwise.
RunStart(w) ==
    /\ run[w].pc = "idle"
    /\ tasks # <<>>
    /\ tasks' = Tail(tasks)
    /\ LET dir == Head(tasks)
           listing == IF dir = DataDir THEN Listing ELSE <<>>
       IN  run' = [run EXCEPT ![w] =
                [IdleRun EXCEPT !.pc = NextPc(<<>>, listing), !.dir = dir,
                                !.listing = listing, !.vs0 = vs, !.rm0 = rm,
                                !.base = prev, !.listing0 = listing]]
    /\ UNCHANGED <<fs, clock, vs, rm, prev, queued, del, qs>>

\* load_documents_lazy takes the next entry of the listing: directories and
\* unregistered extensions are skipped, a file whose loader raises (or that
\* is no longer there) is skipped, and the documents of a loaded file are
\* kept for the rest of the loop body.
LoadNext(w, outcome) ==
    /\ run[w].pc = "scan"
    /\ run[w].listing # <<>>
    /\ LET name == Head(run[w].listing)
           rest == Tail(run[w].listing)
       IN  \/ /\ IsDir(name) \/ Suffix(name) \notin LOADER_MAP
              /\ run' = [run EXCEPT ![w].listing = rest,
                                    ![w].visited = Append(@, NoChunks(name, "skipped")),
                                    ![w].pc = NextPc(run[w].batch, rest)]
           \/ /\ ~IsDir(name) /\ Suffix(name) \in LOADER_MAP
              /\ outcome = "load_error" \/ ~fs[name].present
              /\ LET left == AfterLoadFailure(rest)
                 IN  run' = [run EXCEPT ![w].listing = left,
                                        ![w].loadfail = TRUE,
                                        ![w].visited = Append(@, NoChunks(name, "failed")),
                                        ![w].pc = NextPc(run[w].batch, left)]
           \/ /\ ~IsDir(name) /\ Suffix(name) \in LOADER_MAP
              /\ fs[name].present
              /\ outcome = "loaded"
              /\ run' = [run EXCEPT
                      ![w].listing = rest,
                      ![w].loaded = [name |-> name, content |-> fs[name].content],
                      ![w].pc = "loaded"]
    /\ UNCHANGED <<fs, clock, tasks, vs, rm, prev, queued, del, qs>>

\* The rest of the loop body for a loaded file: the modification time is
\* read (file_path.stat(), outside the try block: the generator raises when
\* the file is gone and run_indexing ends with that exception),
\* _infer_metadata is called once, the documents are split and every chunk
\* gets its metadata and is yielded to run_indexing, which fills its batch.
YieldChunks(w, reply) ==
    /\ run[w].pc = "loaded"
    /\ LET name == run[w].loaded.name
       IN  IF ~fs[name].present
           THEN run' = [run EXCEPT ![w].pc = "aborted", ![w].loaded = IdleRun.loaded]
           ELSE LET inferred == InferMetadata(reply)
                    file == [content |-> run[w].loaded.content, mtime |-> fs[name].mtime]
                    chunks == FileChunks(name, file, inferred)
                    pieces == SplitDocuments(LoaderLoad(name, file.content))
                    f == Fill(run[w].batch, chunks)
                    entry == [name |-> name, outcome |-> "loaded",
                              failed |-> InferFailed(reply), inferred |-> inferred,
                              first |-> Len(run[w].yielded) + 1, n |-> Len(chunks),
                              pages |-> [i \in 1..Len(pieces) |-> pieces[i].page]]
                IN  run' = [run EXCEPT
                        ![w].loaded = IdleRun.loaded,
                        ![w].cur = f.cur,
                        ![w].batch = f.batch,
                        ![w].produced = @ \cup Range(chunks),
                        ![w].nyield = @ + Len(chunks),
                        ![w].visited = Append(@, entry),
                        ![w].yielded = @ \o chunks,
                        ![w].ncalls = @ + 1,
                        ![w].pc = NextPc(f.batch, run[w].listing)]
    /\ UNCHANGED <<fs, clock, tasks, vs, rm, prev, queued, del, qs>>

\* The index step of a full batch (the try block inside the loop), after
\* which the loop goes on with the chunks the generator still holds.
IndexBatch(w, failAt) ==
    /\ run[w].pc = "index"
    /\   /\ LET res == Index(run[w].batch, vs, rm, failAt)
                cnt == BatchCounters(run[w].total_indexed, run[w].errors, res)
                f == Fill(<<>>, run[w].cur)
            IN  /\ vs' = res.vs
                /\ rm' = res.rm
                /\ run' = [run EXCEPT
                       ![w].total_indexed = cnt.total_indexed,
                       ![w].errors = cnt.errors,
                       ![w].log = Append(@, [size |-> Len(run[w].batch), ok |-> res.ok,
                                             indexed |-> res.num_added + res.num_updated,
                                             batch |-> run[w].batch]),
                       ![w].batch = f.batch,
                       ![w].cur = f.cur,
                       ![w].pc = NextPc(f.batch, run[w].listing)]
    /\ UNCHANGED <<fs, clock, tasks, prev, queued, del, qs>>

\* The index step of the final partial batch ("if batch:").
IndexFinal(w, failAt) ==
    /\ run[w].pc = "final"
    /\   /\ LET res == Index(run[w].batch, vs, rm, failAt)
                cnt == BatchCounters(run[w].total_indexed, run[w].errors, res)
            IN  /\ vs' = res.vs
                /\ rm' = res.rm
                /\ run' = [run EXCEPT
                       ![w].total_indexed = cnt.total_indexed,
                       ![w].errors = cnt.errors,
                       ![w].log = Append(@, [size |-> Len(run[w].batch), ok |-> res.ok,
                                             indexed |-> res.num_added + res.num_updated,
                                             batch |-> run[w].batch]),
                       ![w].batch = <<>>,
                       ![w].pc = "ret"]
    /\ UNCHANGED <<fs, clock, tasks, prev, queued, del, qs>>

\* Whether a finished run over the data directory saw every batch succeed
\* and no other operation change the files or the stores.
CleanRun(r) ==
    r.dir = DataDir /\ r.errors = 0 /\ ~r.disturbed

\* run_indexing returns {"total_indexed": ..., "errors": ...}; the
\* background task ends.
RunReturn(w) ==
    /\ run[w].pc = "ret"
    /\ prev' = IF run[w].dir = DataDir
               THEN [ok |-> CleanRun(run[w]), produced |-> run[w].produced]
               ELSE prev
    /\ run' = [run EXCEPT ![w] = IdleRun]
    /\ UNCHANGED <<fs, clock, tasks, vs, rm, queued, del, qs>>

\* The exception of the generator left run_indexing: the background task
\* ends with it, the batch it held is never indexed.
RunAbort(w) ==
    /\ run[w].pc = "aborted"
    /\ prev' = [prev EXCEPT !.ok = FALSE]
    /\ run' = [run EXCEPT ![w] = IdleRun]
    /\ UNCHANGED <<fs, clock, tasks, vs, rm, queued, del, qs>>

(************************* DELETE /v1/documents *****************************)
\* The names a DELETE request may carry: the documents, the subdirectory,
\* the directory itself, its parent, and "out", a link in the data
\* directory to a directory outside it.
DeleteNames == FileNames \cup {"sub", ".", "..", "out"}

\* data_dir.resolve()
DataDirResolved == "/srv/data"

\* (data_dir / filename).resolve().parent
ResolvedParent(name) ==
    CASE name = ".." -> "/"
      [] name = "." -> "/srv"
      [] name = "out" -> "/srv"
      [] OTHER -> DataDirResolved

\* Whether data_dir / filename resolves to a path outside the data directory.
Outside(name) == name \in {"..", "out"}

\* file_path.exists()
Exists(name) == IF name \in FileNames THEN fs[name].present ELSE TRUE

\* The path-traversal check of the endpoint: the request is refused when it
\* holds.
TraversalRejectedNever(name) == FALSE

TraversalRejected(name) == ResolvedParent(name) # DataDirResolved

IdleDel ==
    [pc |-> "idle", filename |-> "", status |-> 0,
     deleted_vectors |-> 0, deleted_records |-> 0,
     \* history: whether delete_document was called, what it removed, which
     \* collaborator failed, whether the file was there, whether the step
     \* of the file removal was reached, and the stores and files when the
     \* request came
     called |-> FALSE, removed_vectors |-> 0, removed_records |-> 0,
     rm_failure |-> "none", unlink_failed |-> FALSE, existed |-> FALSE,
     reached_unlink |-> FALSE, vs0 |-> {}, rm0 |-> {},
     fs0 |-> [f \in FileNames |-> Absent]]

\* The endpoint receives the request: 400 when the resolved path is not
\* directly in the data directory, 404 when the file is absent, and
\* otherwise delete_document is called.
DeleteRequest(name) ==
    /\ del.pc = "idle"
    /\ LET d == [IdleDel EXCEPT !.filename = name, !.existed = Exists(name),
                                !.vs0 = vs, !.rm0 = rm, !.fs0 = fs]
       IN  del' = IF TraversalRejected(name)
                    THEN [d EXCEPT !.pc = "done", !.status = 400]
                  ELSE IF ~Exists(name)
                    THEN [d EXCEPT !.pc = "done", !.status = 404]
                  ELSE [d EXCEPT !.pc = "vectors", !.called = TRUE]
    /\ UNCHANGED <<fs, clock, tasks, vs, rm, run, prev, queued, qs>>

SourceMatchesByText(store, filename) ==
    {e \in store : \E d \in store : d.source = filename /\ d.text = e.text}

\* collection.get(where={"source": {"$eq": filename}})
SourceMatches(store, filename) == {e \in store : e.source = filename}

\* delete_document reads the entries of the file from the vector store and
\* deletes them; a failure of the vector store is not caught and the
\* endpoint answers 500.
DelVectors(vsFail) ==
    /\ del.pc = "vectors"
    /\ LET results == SourceMatches(vs, del.filename)
       IN  IF vsFail = "none"
           THEN /\ vs' = vs \ results
                /\ del' = [del EXCEPT !.pc = "records",
                                      !.deleted_vectors = Cardinality(results),
                                      !.removed_vectors = Cardinality(results)]
           ELSE /\ vs' = vs
                /\ del' = [del EXCEPT !.pc = "done", !.status = 500]
    /\ UNCHANGED <<fs, clock, tasks, rm, run, prev, queued, qs>>

RecordFailurePropagates(rmFail) == IF rmFail = "none" THEN "unlink" ELSE "done"

\* Where delete_document goes on after the record manager block: its
\* "except Exception" logs the failure and the function continues.
AfterRecords(rmFail) == "unlink"

\* record_manager.list_keys(group_ids=[filename]) and delete_keys(keys),
\* inside the try block.  An exception that left delete_document would
\* make the endpoint answer 500.
DelRecords(rmFail) ==
    /\ del.pc = "records"
    /\ LET keys == {x \in rm : x[2] = del.filename}
           next == AfterRecords(rmFail)
           code == IF next = "done" THEN 500 ELSE 0
       IN  \/ /\ rmFail = "list_keys"
              /\ rm' = rm
              /\ del' = [del EXCEPT !.pc = next, !.status = code, !.rm_failure = rmFail]
           \/ /\ rmFail = "delete_keys"
              /\ keys # {}
              /\ rm' = rm
              /\ del' = [del EXCEPT !.pc = next, !.status = code, !.rm_failure = rmFail,
                                    !.deleted_records = Cardinality(keys)]
           \/ /\ rmFail = "none"
              /\ rm' = rm \ keys
              /\ del' = [del EXCEPT !.pc = next, !.status = code,
                                    !.deleted_records = Cardinality(keys),
                                    !.removed_records = Cardinality(keys)]
    /\ UNCHANGED <<fs, clock, tasks, vs, run, prev, queued, qs>>

\* "if file_path.exists(): file_path.unlink()", then the return of
\* delete_document and the answer of the endpoint: an exception of unlink
\* is not caught in delete_document and the endpoint answers 500.
DelFile(unlinkFails) ==
    /\ del.pc = "unlink"
    /\ IsDir(del.filename) => unlinkFails
    /\ IF ~Exists(del.filename)
       THEN /\ ~unlinkFails
            /\ del' = [del EXCEPT !.pc = "done", !.status = 200, !.reached_unlink = TRUE]
            /\ UNCHANGED <<fs, run, prev>>
       ELSE IF unlinkFails
       THEN /\ del' = [del EXCEPT !.pc = "done", !.status = 500,
                                  !.reached_unlink = TRUE, !.unlink_failed = TRUE]
            /\ UNCHANGED <<fs, run, prev>>
       ELSE /\ del' = [del EXCEPT !.pc = "done", !.status = 200, !.reached_unlink = TRUE]
            /\ fs' = [fs EXCEPT ![del.filename] = Absent]
            /\ run' = Disturb(run)
            /\ prev' = [prev EXCEPT !.ok = FALSE]
    /\ UNCHANGED <<clock, tasks, vs, rm, queued, qs>>

\* The response has been sent.
DelDone ==
    /\ del.pc = "done"
    /\ del' = IdleDel
    /\ UNCHANGED <<fs, clock, tasks, vs, rm, run, prev, queued, qs>>

(***************************** POST /v1/query *******************************)
\* The fragment of the except branch, and the phrase the system prompt
\* asks the model to answer with when the context holds no information.
ErrorFragment == "[ERROR]"
NotFound == "not found"

\* What a chunk of the chat model's stream may hold: a piece of an answer,
\* the "not found" phrase, or nothing.
Fragments == {"tok", NotFound, ""}

\* QueryRequest.metadata_filter: None, or a mapping, given as the sequence
\* of its items.
NoFilter == [given |-> FALSE, items |-> <<>>]
Mapping(items) == [given |-> TRUE, items |-> items]

\* The metadata filters of a request: none, the empty mapping, one field,
\* two fields, three fields.
Filters ==
    {NoFilter,
     Mapping(<<>>),
     Mapping(<<<<"department", "hr">>>>),
     Mapping(<<<<"department", "legal">>>>),
     Mapping(<<<<"department", "all">>, <<"category", "other">>>>),
     Mapping(<<<<"department", "hr">>, <<"category", "other">>>>),
     Mapping(<<<<"category", "manual">>, <<"department", "hr">>, <<"source", "b.pdf">>>>)}

\* None: no filter is built.
NoWhere == [op |-> "none", field |-> "", value |-> "", conds |-> <<>>]

BuildChromaFilterFirstOnly(metadata_filter) ==
    IF ~metadata_filter.given \/ metadata_filter.items = <<>> THEN NoWhere
    ELSE [op |-> "eq", field |-> metadata_filter.items[1][1],
          value |-> metadata_filter.items[1][2], conds |-> <<>>]

\* build_chroma_filter: None for no filter and for the empty mapping, the
\* single condition alone, or {"$and": conditions}.
BuildChromaFilter(metadata_filter) ==
    LET items == metadata_filter.items
        conditions == [i \in 1..Len(items) |->
                          [op |-> "eq", field |-> items[i][1],
                           value |-> items[i][2], conds |-> <<>>]]
    IN  IF ~metadata_filter.given \/ items = <<>> THEN NoWhere
        ELSE IF Len(conditions) = 1 THEN conditions[1]
        ELSE [op |-> "and", field |-> "", value |-> "", conds |-> conditions]

Field(doc, field) ==
    CASE field = "department" -> doc.department
      [] field = "category" -> doc.category
      [] field = "source" -> doc.source
      [] OTHER -> ""

\* Whether the vector store's filter lets a document through.
Matches(where, doc) ==
    CASE where.op = "none" -> TRUE
      [] where.op = "eq" -> Field(doc, where.field) = where.value
      [] OTHER -> \A i \in 1..Len(where.conds) :
                     Field(doc, where.conds[i].field) = where.conds[i].value

\* What similarity_search may return: k of the documents the filter lets
\* through, or all of them when they are fewer.
SearchResults(store, k, where) ==
    LET pool == {d \in store : Matches(where, d)}
    IN  {hits \in SUBSET pool : Cardinality(hits) = Min(k, Cardinality(pool))}

\* _format_context: the source, the page and the text of every document.
FormatContext(docs) == {<<d.source, d.page, d.text>> : d \in docs}

IdleQuery ==
    [pc |-> "idle", docs |-> {}, context |-> {}, pending |-> "",
     emitted |-> <<>>, requested |-> 0,
     \* history: the step that failed, if any
     failure |-> "none",
     \* history: the request, the filter built from it, whether it was
     \* passed to similarity_search, the store searched, every chunk the
     \* chat model streamed, and what had been emitted and requested when
     \* the consumer stopped
     k |-> 0, metadata_filter |-> NoFilter, where |-> NoWhere,
     passed |-> FALSE, searched |-> {}, generated |-> <<>>,
     cancelled |-> FALSE, at_cancel |-> [emitted |-> <<>>, requested |-> 0]]

FailureEscapes(stage) == "raised"

\* Where generate_answer_stream goes when a step inside its try block
\* raises: to the except branch, which yields the error fragment.
OnFailure(stage) == "error"

\* The request arrives and generate_answer_stream calls
\* retrieve_documents, then builds the context and the chat model.
Retrieve(k, metadata_filter, outcome) ==
    /\ qs.pc = "idle"
    /\ \/ /\ outcome \in {"retrieval_error", "model_error"}
          /\ qs' = [IdleQuery EXCEPT !.pc = OnFailure(outcome), !.failure = outcome]
       \/ /\ outcome = "ok"
          /\ LET where == BuildChromaFilter(metadata_filter)
                 passed == where # NoWhere
             IN  \E hits \in SearchResults(vs, k, IF passed THEN where ELSE NoWhere) :
                   qs' = [IdleQuery EXCEPT !.pc = "stream", !.docs = hits,
                                           !.context = FormatContext(hits),
                                           !.k = k, !.metadata_filter = metadata_filter,
                                           !.where = where, !.passed = passed,
                                           !.searched = vs]
    /\ UNCHANGED <<fs, clock, tasks, vs, rm, run, prev, queued, del>>

HasContentAlways(fragment) == TRUE

\* "if chunk.content"
HasContent(fragment) == fragment # ""

\* "async for chunk in llm.astream(messages)": the next chunk is awaited.
\* It holds a fragment, which is yielded, or nothing, and the loop goes on;
\* or the stream ends; or the chat model raises.
StreamNext(outcome, fragment) ==
    /\ qs.pc = "stream"
    /\ \/ /\ outcome = "chunk"
          /\ qs.requested < MaxFragments
          /\ qs' = IF HasContent(fragment)
                   THEN [qs EXCEPT !.pc = "yield", !.pending = fragment,
                                   !.requested = @ + 1,
                                   !.generated = Append(@, fragment)]
                   ELSE [qs EXCEPT !.requested = @ + 1,
                                   !.generated = Append(@, fragment)]
       \/ /\ outcome = "end"
          /\ fragment = ""
          /\ qs' = [qs EXCEPT !.pc = "closed"]
       \/ /\ outcome = "generation_error"
          /\ fragment = ""
          /\ qs' = [qs EXCEPT !.pc = OnFailure(outcome), !.failure = outcome]
    /\ UNCHANGED <<fs, clock, tasks, vs, rm, run, prev, queued, del>>

\* The consumer (the event generator of the endpoint) receives the yielded
\* fragment, sends it as an event and asks for the next one.
Consume ==
    /\ qs.pc = "yield"
    /\ qs' = [qs EXCEPT !.pc = "stream", !.pending = "",
                        !.emitted = Append(@, qs.pending)]
    /\ UNCHANGED <<fs, clock, tasks, vs, rm, run, prev, queued, del>>

\* The except branch: the error fragment is yielded and received, and the
\* generator ends.
YieldError ==
    /\ qs.pc = "error"
    /\ qs' = [qs EXCEPT !.pc = "closed", !.emitted = Append(@, ErrorFragment)]
    /\ UNCHANGED <<fs, clock, tasks, vs, rm, run, prev, queued, del>>

CancelCaught(at) == "error"

\* Where generate_answer_stream goes when its consumer stops: the
\* cancellation is raised at the awaited chunk, or the suspended generator
\* is closed at its yield; neither is an Exception, so the except branch
\* is not entered and the generator ends.
OnCancel(at) == "cancelled"

\* The client disconnects: the response stops iterating the event
\* generator, and with it generate_answer_stream, which is awaiting the
\* next chunk or is suspended at a yield whose fragment the consumer has.
Cancel ==
    /\ qs.pc \in {"stream", "yield"}
    /\ LET emitted == IF qs.pc = "yield" THEN Append(qs.emitted, qs.pending)
                      ELSE qs.emitted
       IN  qs' = [qs EXCEPT !.pc = OnCancel(qs.pc), !.pending = "",
                            !.emitted = emitted, !.cancelled = TRUE,
                            !.at_cancel = [emitted |-> emitted,
                                           requested |-> qs.requested]]
    /\ UNCHANGED <<fs, clock, tasks, vs, rm, run, prev, queued, del>>

\* The response of the query has ended.
QueryDone ==
    /\ qs.pc \in {"closed", "raised", "cancelled"}
    /\ qs' = IdleQuery
    /\ UNCHANGED <<fs, clock, tasks, vs, rm, run, prev, queued, del>>

\* What loader.load() may do.
LoadOutcomes == {"loaded", "load_error"}

\* No background task is queued or running.
Quiet == tasks = <<>> /\ \A w \in Workers : run[w].pc = "idle"

Init == IxInit /\ del = IdleDel /\ qs = IdleQuery

\* The indexer in sequential operation: a request arrives when the
\* background task of the request before has ended.
Next ==
    \/ \E name \in FileNames, content \in {<<1>>, Big} : Quiet /\ Upload(name, content)
    \/ \E dir \in {DataDir, MissingDir} : Quiet /\ IndexRequest(dir)
    \/ \E w \in OneWorker : RunStart(w)
    \/ \E w \in OneWorker, outcome \in LoadOutcomes : LoadNext(w, outcome)
    \/ \E w \in OneWorker, reply \in {"raise", "malformed", "object_full", "object_empty"} :
          YieldChunks(w, reply)
    \/ \E w \in OneWorker, failAt \in FailPoints : IndexBatch(w, failAt)
    \/ \E w \in OneWorker, failAt \in FailPoints : IndexFinal(w, failAt)
    \/ \E w \in OneWorker : RunReturn(w)

Spec == Init /\ [][Next]_vars

\* The indexer in sequential operation with every failure of the loader
\* and of the index step, the inferencer giving its default answer and the
\* long document being a text file.
NextBatch ==
    \/ \E name \in FileNames, content \in {<<1>>, Big} :
          Quiet /\ (content = Big => name = "a.txt") /\ Upload(name, content)
    \/ Quiet /\ IndexRequest(DataDir)
    \/ \E w \in OneWorker : RunStart(w)
    \/ \E w \in OneWorker, outcome \in LoadOutcomes : LoadNext(w, outcome)
    \/ \E w \in OneWorker : YieldChunks(w, "raise")
    \/ \E w \in OneWorker, failAt \in FailPoints : IndexBatch(w, failAt)
    \/ \E w \in OneWorker, failAt \in FailPoints : IndexFinal(w, failAt)
    \/ \E w \in OneWorker : RunReturn(w)

SpecBatch == Init /\ [][NextBatch]_vars

\* Deletion in sequential operation, with the indexer that fills the stores.
NextDelete ==
    \/ \E name \in FileNames, content \in SmallContents : Quiet /\ del.pc = "idle" /\ Upload(name, content)
    \/ \E w \in OneWorker : RunStart(w)
    \/ \E w \in OneWorker, outcome \in LoadOutcomes : LoadNext(w, outcome)
    \/ \E w \in OneWorker : YieldChunks(w, "raise")
    \/ \E w \in OneWorker, failAt \in {"none", "update"} : IndexBatch(w, failAt)
    \/ \E w \in OneWorker, failAt \in {"none", "update"} : IndexFinal(w, failAt)
    \/ \E w \in OneWorker : RunReturn(w)
    \/ \E name \in DeleteNames : Quiet /\ DeleteRequest(name)
    \/ \E vsFail \in {"none", "get", "delete"} : DelVectors(vsFail)
    \/ \E rmFail \in {"none", "list_keys", "delete_keys"} : DelRecords(rmFail)
    \/ \E unlinkFails \in BOOLEAN : DelFile(unlinkFails)
    \/ DelDone

SpecDelete == Init /\ [][NextDelete]_vars

\* The loader and the batching in sequential operation, with every outcome
\* of the loader and of the inferencer and over both directories.
NextLoad ==
    \/ \E name \in FileNames, content \in {<<1>>, Big} : Quiet /\ Upload(name, content)
    \/ \E dir \in {DataDir, MissingDir} : Quiet /\ IndexRequest(dir)
    \/ \E w \in OneWorker : RunStart(w)
    \/ \E w \in OneWorker, outcome \in LoadOutcomes : LoadNext(w, outcome)
    \/ \E w \in OneWorker, reply \in LLMReplies : YieldChunks(w, reply)
    \/ \E w \in OneWorker : IndexBatch(w, "none")
    \/ \E w \in OneWorker : IndexFinal(w, "none")
    \/ \E w \in OneWorker : RunReturn(w)

SpecLoad == Init /\ [][NextLoad]_vars

\* The requests that queue indexing arriving at any time: each background
\* task is run by a thread of the pool as soon as it is queued.
NextConcurrent ==
    \/ \E name \in FileNames : Upload(name, <<1>>)
    \/ IndexRequest(DataDir)
    \/ \E w \in Workers : RunStart(w)
    \/ \E w \in Workers, outcome \in LoadOutcomes : LoadNext(w, outcome)
    \/ \E w \in Workers : YieldChunks(w, "raise")
    \/ \E w \in Workers : IndexBatch(w, "none")
    \/ \E w \in Workers : IndexFinal(w, "none")
    \/ \E w \in Workers : RunReturn(w)

SpecConcurrent == Init /\ [][NextConcurrent]_vars

\* A DELETE request served while a background indexing task runs: the
\* endpoint runs delete_document on the event loop, where no upload is
\* served meanwhile, and the task runs in a thread of the pool.
NextRace ==
    \/ \E name \in FileNames : del.pc = "idle" /\ Upload(name, <<1>>)
    \/ \E w \in OneWorker : RunStart(w)
    \/ \E w \in OneWorker : LoadNext(w, "loaded")
    \/ \E w \in OneWorker : YieldChunks(w, "raise")
    \/ \E w \in OneWorker : IndexBatch(w, "none")
    \/ \E w \in OneWorker : IndexFinal(w, "none")
    \/ \E w \in OneWorker : RunReturn(w)
    \/ \E w \in OneWorker : RunAbort(w)
    \/ \E name \in FileNames : DeleteRequest(name)
    \/ DelVectors("none")
    \/ DelRecords("none")
    \/ DelFile(FALSE)
    \/ DelDone

SpecRace == Init /\ [][NextRace]_vars

(***************************** the claims ***********************************)
RECURSIVE SumIndexed(_)
SumIndexed(log) ==
    IF log = <<>> THEN 0
    ELSE (IF Head(log).ok THEN Head(log).indexed ELSE 0) + SumIndexed(Tail(log))

RECURSIVE SumSizes(_)
SumSizes(log) == IF log = <<>> THEN 0 ELSE Head(log).size + SumSizes(Tail(log))

Failed(log) == {i \in 1..Len(log) : ~log[i].ok}

CeilDiv(n, d) == (n + d - 1) \div d

\* C1: when run_indexing runs twice in succession over the same unchanged
\* directory, no batch failing and the same chunks being yielded, the
\* second run returns total_indexed = 0 and leaves the vector store and
\* the record manager as they were.
C1_SecondRunIsNoOp ==
    \A w \in Workers :
        LET r == run[w]
        IN  (r.pc = "ret" /\ r.base.ok /\ CleanRun(r) /\ r.produced = r.base.produced)
                => (r.total_indexed = 0 /\ vs = r.vs0 /\ rm = r.rm0)

\* C2: after a run in which no batch failed, the entries deleted are
\* exactly those of a processed source whose key no current chunk of that
\* source has: every chunk yielded is in the vector store and in the record
\* manager, and the entries of the other sources are as they were.
C2_CleanupExact ==
    \A w \in Workers :
        LET r == run[w]
            processed == {c.source : c \in r.produced}
            current == Keys(r.produced)
            stale_vs == {e \in r.vs0 : e.source \in processed /\ IndexKey(e) \notin current}
            stale_rm == {x \in r.rm0 : x[2] \in processed /\ x[1] \notin current}
        IN  (r.pc = "ret" /\ CleanRun(r))
                => /\ vs = (r.vs0 \ stale_vs) \cup r.produced
                   /\ rm = (r.rm0 \ stale_rm) \cup {<<IndexKey(c), c.source>> : c \in r.produced}

\* C3: a failed index step adds one to errors and nothing to
\* total_indexed, the steps after it are still made, and the run returns
\* the number of failed steps and the sum of num_added + num_updated over
\* the steps that succeeded.
C3_BatchIsolation ==
    \A w \in Workers :
        LET r == run[w]
        IN  /\ r.errors = Cardinality(Failed(r.log))
            /\ r.total_indexed = SumIndexed(r.log)
            /\ r.pc = "ret" =>
                  /\ SumSizes(r.log) = r.nyield
                  /\ Len(r.log) = CeilDiv(r.nyield, BatchSize)

\* A run returned after its first index step failed and a later one added
\* documents.
C3_Witness ==
    \E w \in Workers :
        LET r == run[w]
        IN  /\ r.pc = "ret"
            /\ Len(r.log) >= 2
            /\ ~r.log[1].ok
            /\ r.log[Len(r.log)].ok
            /\ r.log[Len(r.log)].indexed > 0
            /\ r.errors = 1

\* The files and the stores after a.txt and b.pdf were uploaded and
\* indexed in one batch, the inferencer having answered for b.pdf only.
IndexedFiles ==
    [f \in FileNames |->
        [present |-> TRUE, content |-> <<1>>, mtime |-> IF f = "a.txt" THEN 1 ELSE 2]]

IndexedStores ==
    Index(FileChunks("a.txt", IndexedFiles["a.txt"], DefaultPair)
              \o FileChunks("b.pdf", IndexedFiles["b.pdf"], OtherPair),
          {}, {}, "none")

\* The answer stream, over the empty stores and over the indexed ones.
InitStream ==
    \/ Init
    \/ /\ fs = IndexedFiles
       /\ clock = 2
       /\ queued = 2
       /\ tasks = <<>>
       /\ vs = IndexedStores.vs
       /\ rm = IndexedStores.rm
       /\ run = [w \in Workers |-> IdleRun]
       /\ prev = [ok |-> FALSE, produced |-> {}]
       /\ del = IdleDel
       /\ qs = IdleQuery

NextStream ==
    \/ \E k \in 1..2, f \in Filters, outcome \in {"ok", "retrieval_error", "model_error"} :
          Retrieve(k, f, outcome)
    \/ \E outcome \in {"chunk", "end", "generation_error"}, fragment \in Fragments :
          StreamNext(outcome, fragment)
    \/ Consume
    \/ Cancel
    \/ YieldError
    \/ QueryDone

SpecStream == InitStream /\ [][NextStream]_vars

\* C4: a delete of A that met no collaborator failure, no indexing run
\* being active, removed exactly the vector-store entries and the index
\* records whose source is A: none of A is left and those of every other
\* source are as they were.
C4_DeleteExact ==
    (del.pc = "done" /\ del.status = 200 /\ del.rm_failure = "none")
        => /\ vs = {e \in del.vs0 : e.source # del.filename}
           /\ rm = {x \in del.rm0 : x[2] # del.filename}

\* A delete answered after it removed the entries of its file while another
\* file held a chunk of the same text, which is still stored.
C4_Witness ==
    /\ del.pc = "done" /\ del.status = 200 /\ del.rm_failure = "none"
    /\ \E e \in del.vs0 : \E b \in vs :
         e.source = del.filename /\ b.source # del.filename /\ b.text = e.text
    /\ \E x \in del.rm0 : x[2] = del.filename
    /\ \E x \in rm : x[2] # del.filename

\* C5: a failure of the record manager (list_keys or delete_keys) after
\* the vector-store entries were deleted is not raised: the file-removal
\* step is reached, the entries stay removed, and when that step does not
\* fail the result is returned.
C5_RecordFailureAbsorbed ==
    (del.pc = "done" /\ del.rm_failure # "none")
        => /\ del.reached_unlink
           /\ vs = {e \in del.vs0 : e.source # del.filename}
           /\ ~del.unlink_failed =>
                 (del.status = 200 /\ del.deleted_vectors = del.removed_vectors)

\* A delete answered 200 after delete_keys failed, its vectors removed.
C5_Witness ==
    /\ del.pc = "done" /\ del.rm_failure = "delete_keys"
    /\ del.status = 200
    /\ del.removed_vectors > 0
    /\ \E e \in del.vs0 : e.source = del.filename

\* C6: the counts delete_document returns are the numbers of vector-store
\* entries and of index records this call removed, in every outcome.
C6_CountsAreRemovals ==
    (del.pc = "done" /\ del.status = 200)
        => /\ del.deleted_vectors = del.removed_vectors
           /\ del.deleted_records = del.removed_records

\* C7: when the file exists and its removal fails, delete_document still
\* returns the counts and the endpoint answers with them.
C7_UnlinkBestEffort ==
    (del.pc = "done" /\ del.filename \in FileNames /\ del.unlink_failed)
        => del.status = 200

\* C8: a request whose name resolves outside the data directory is
\* answered 400, and one naming an absent file 404, without
\* delete_document being called and with the vector store, the record
\* manager and the files unchanged.
C8_RejectedBeforeDeletion ==
    (del.pc = "done" /\ (Outside(del.filename) \/ ~del.existed))
        => /\ del.status = IF Outside(del.filename) THEN 400 ELSE 404
           /\ ~del.called
           /\ vs = del.vs0 /\ rm = del.rm0 /\ fs = del.fs0

\* A request naming a path outside the data directory was answered 400
\* while the stores held entries.
C8_Witness ==
    /\ del.pc = "done" /\ Outside(del.filename) /\ del.status = 400
    /\ vs # {} /\ rm # {}

\* C9: the stream never raises to its consumer; the error fragment is
\* emitted only after a failure, as the last fragment, once; a stream
\* that ended after a failure of the retrieval or of the generation emitted
\* it, and one that ended without failure did not.
C9_FailureAbsorbed ==
    /\ qs.pc # "raised"
    /\ \A i \in 1..Len(qs.emitted) :
         qs.emitted[i] = ErrorFragment
             => (i = Len(qs.emitted) /\ qs.pc = "closed" /\ qs.failure # "none")
    /\ qs.pc = "closed" =>
         (qs.failure # "none"
             <=> (qs.emitted # <<>> /\ qs.emitted[Len(qs.emitted)] = ErrorFragment))

\* A stream ended with the error fragment after the generation failed,
\* two fragments having been emitted.
C9_Witness ==
    /\ qs.pc = "closed" /\ qs.failure = "generation_error"
    /\ Len(qs.emitted) = 3
    /\ qs.emitted[3] = ErrorFragment

\* C10: when the retrieval returns no chunk, the stream yields exactly one
\* fragment, holding the "not found" phrase, whatever the chat model
\* streams.
C10_EmptyContextSentinel ==
    (qs.pc = "closed" /\ qs.failure = "none" /\ qs.docs = {})
        => (Len(qs.emitted) = 1 /\ qs.emitted[1] = NotFound)

\* C11: once the consumer stopped iterating the answer stream, the
\* generator requests no further chunk from the chat model and emits no
\* further fragment, the error fragment included, and it has ended: what
\* was requested and emitted is what it was when the consumer stopped.
C11_CancellationStops ==
    qs.cancelled
        => /\ qs.pc = "cancelled"
           /\ qs.pending = ""
           /\ qs.requested = qs.at_cancel.requested
           /\ qs.emitted = qs.at_cancel.emitted
           /\ \A i \in 1..Len(qs.emitted) : qs.emitted[i] # ErrorFragment

\* The consumer stopped after two fragments, the chat model having more to
\* stream.
C11_Witness ==
    /\ qs.pc = "cancelled" /\ qs.cancelled
    /\ Len(qs.emitted) = 2
    /\ qs.requested = 2
    /\ qs.requested < MaxFragments

\* The documents of the store searched that meet every condition of the
\* request's metadata filter.
Meeting(store, metadata_filter) ==
    {d \in store : \A i \in 1..Len(metadata_filter.items) :
        Field(d, metadata_filter.items[i][1]) = metadata_filter.items[i][2]}

\* C13: no filter and the empty mapping give no store filter and none is
\* passed to the search; one field gives its equality condition alone; two
\* or more fields give the AND of one equality condition per field, in
\* number and content those of the mapping; and the search returns only
\* chunks that meet every condition, k of them or all when they are fewer.
C13_FilterMapping ==
    LET mf == qs.metadata_filter
        n == Len(mf.items)
        pool == Meeting(qs.searched, mf)
    IN  qs.k > 0
            => /\ (~mf.given \/ n = 0) => (qs.where = NoWhere /\ ~qs.passed)
               /\ (mf.given /\ n = 1) =>
                     /\ qs.passed
                     /\ qs.where.op = "eq"
                     /\ qs.where.field = mf.items[1][1]
                     /\ qs.where.value = mf.items[1][2]
               /\ (mf.given /\ n >= 2) =>
                     /\ qs.passed
                     /\ qs.where.op = "and"
                     /\ Len(qs.where.conds) = n
                     /\ \A i \in 1..n :
                          /\ qs.where.conds[i].op = "eq"
                          /\ qs.where.conds[i].field = mf.items[i][1]
                          /\ qs.where.conds[i].value = mf.items[i][2]
               /\ qs.docs \subseteq pool
               /\ Cardinality(qs.docs) = Min(qs.k, Cardinality(pool))

\* A search with a filter of two fields returned the one chunk of two that
\* meets both conditions.
C13_Witness ==
    /\ qs.k = 2
    /\ qs.metadata_filter.given /\ Len(qs.metadata_filter.items) = 2
    /\ Cardinality(qs.searched) = 2
    /\ Cardinality(qs.docs) = 1
    /\ qs.where.op = "and"

\* The chunks of the chat model that hold a fragment.
NonEmpty(generated) == SelectSeq(generated, LAMBDA f : f # "")

\* The fragments relayed: what was emitted, the error fragment of a failed
\* stream apart.
Relayed ==
    IF qs.failure # "none" /\ qs.emitted # <<>>
          /\ qs.emitted[Len(qs.emitted)] = ErrorFragment
    THEN SubSeq(qs.emitted, 1, Len(qs.emitted) - 1)
    ELSE qs.emitted

\* C16: the fragments emitted are the non-empty fragments the chat model
\* produced, in the same order, none duplicated or dropped, and a fragment
\* is with the consumer before the next chunk is requested: the only
\* fragment produced and not yet emitted is the one being yielded.
C16_RelayedInOrder ==
    /\ qs.requested = Len(qs.generated)
    /\ qs.pc = "yield" => NonEmpty(qs.generated) = Append(Relayed, qs.pending)
    /\ qs.pc # "yield" => NonEmpty(qs.generated) = Relayed

\* A stream ended after the chat model produced a fragment, an empty chunk
\* and another fragment: the two fragments were emitted in that order.
C16_Witness ==
    /\ qs.pc = "closed" /\ qs.failure = "none"
    /\ qs.generated = <<"tok", "", NotFound>>
    /\ qs.emitted = <<"tok", NotFound>>

\* The batches passed to the index steps of a run, in order.
Batches(r) == [i \in 1..Len(r.log) |-> r.log[i].batch]

\* C17: the chunks yielded are passed to the index steps in the order
\* yielded, each to exactly one step; every batch but the last holds
\* exactly BatchSize chunks and the last between 1 and BatchSize; when the
\* run returns no chunk is left, so a non-empty remainder was indexed, and
\* no step was made with an empty batch.
C17_BatchPartition ==
    \A w \in Workers :
        LET r == run[w]
        IN  /\ Flatten(Batches(r)) \o r.batch \o r.cur = r.yielded
            /\ \A i \in 1..Len(r.log) :
                 /\ Len(r.log[i].batch) >= 1
                 /\ Len(r.log[i].batch) <= BatchSize
                 /\ i < Len(r.log) => Len(r.log[i].batch) = BatchSize
            /\ r.pc = "ret" =>
                 /\ Flatten(Batches(r)) = r.yielded
                 /\ r.batch = <<>> /\ r.cur = <<>>

\* A run returned after a full batch and a final batch of one chunk.
C17_Witness ==
    \E w \in Workers :
        LET r == run[w]
        IN  /\ r.pc = "ret"
            /\ Len(r.log) = 2
            /\ Len(r.log[1].batch) = BatchSize
            /\ Len(r.log[2].batch) = 1
            /\ Len(r.yielded) = BatchSize + 1

\* The place of a name in the lexicographic order of the names.
Pos(name) == CHOOSE i \in 1..Len(DirOrder) : DirOrder[i] = name

\* The names of the entries of a scan dealt with so far.
VisitedNames(r) == [i \in 1..Len(r.visited) |-> r.visited[i].name]

\* The texts of the chunks a run yielded for one entry.
TextsOf(r, v) == [i \in 1..v.n |-> r.yielded[v.first + i - 1].text]

\* C18: a file whose extraction fails contributes no chunk, every other
\* regular file with a registered extension contributes all its chunks,
\* the entries are visited in lexicographic order, and the scan reaches the
\* end of the directory without raising.
C18_LoadFailureIsolation ==
    \A w \in OneWorker :
        LET r == run[w]
            here == IF r.pc = "loaded" THEN <<r.loaded.name>> ELSE <<>>
        IN  /\ r.pc # "aborted"
            /\ VisitedNames(r) \o here \o r.listing = r.listing0
            /\ \A i, j \in 1..Len(r.listing0) :
                 i < j => Pos(r.listing0[i]) < Pos(r.listing0[j])
            /\ (r.pc # "idle" /\ r.dir = DataDir) =>
                 Range(r.listing0) = FixedEntries \cup {f \in FileNames : fs[f].present}
            /\ r.pc = "ret" => VisitedNames(r) = r.listing0
            /\ \A i \in 1..Len(r.visited) :
                 LET v == r.visited[i]
                     regular == ~IsDir(v.name) /\ Suffix(v.name) \in LOADER_MAP
                 IN  /\ regular <=> v.outcome \in {"failed", "loaded"}
                     /\ v.outcome # "loaded" =>
                          \A k \in 1..Len(r.yielded) : r.yielded[k].source # v.name
                     /\ v.outcome = "loaded" =>
                          /\ TextsOf(r, v) = fs[v.name].content
                          /\ \A k \in 1..Len(r.yielded) :
                               r.yielded[k].source = v.name
                                   <=> (k >= v.first /\ k < v.first + v.n)
            /\ \A i, j \in 1..Len(r.yielded) :
                 i < j => Pos(r.yielded[i].source) <= Pos(r.yielded[j].source)

\* A scan ended in which a.txt failed to load and b.pdf, after it, yielded
\* all the chunks of the long document.
C18_Witness ==
    \E w \in OneWorker :
        LET r == run[w]
        IN  /\ r.pc = "ret"
            /\ Len(r.visited) = 4
            /\ r.visited[1].name = "a.txt" /\ r.visited[1].outcome = "failed"
            /\ r.visited[2].name = "b.pdf" /\ r.visited[2].outcome = "loaded"
            /\ Len(r.yielded) = BigLen

\* C19: _infer_metadata returns a pair for every answer of the chat model
\* and the default pair whenever a step failed, without raising; it is
\* called once for each file loaded, and every chunk of the file carries
\* the pair that call returned.
C19_InferencerAbsorbs ==
    \A w \in OneWorker :
        LET r == run[w]
            loaded == {i \in 1..Len(r.visited) : r.visited[i].outcome = "loaded"}
        IN  /\ r.pc # "aborted"
            /\ r.ncalls = Cardinality(loaded)
            /\ \A i \in loaded :
                 LET v == r.visited[i]
                 IN  \A k \in v.first..(v.first + v.n - 1) :
                        /\ r.yielded[k].category = v.inferred.category
                        /\ r.yielded[k].department = v.inferred.department
                        /\ v.failed =>
                             /\ r.yielded[k].category = DefaultPair.category
                             /\ r.yielded[k].department = DefaultPair.department

\* A scan ended in which the inferencer failed for a file of several
\* chunks and answered for the other file.
C19_Witness ==
    \E w \in OneWorker :
        LET r == run[w]
        IN  /\ r.pc = "ret"
            /\ r.ncalls = 2
            /\ \E i, j \in 1..Len(r.visited) :
                 /\ r.visited[i].outcome = "loaded" /\ r.visited[i].failed
                 /\ r.visited[i].n >= 2
                 /\ r.visited[j].outcome = "loaded" /\ ~r.visited[j].failed
                 /\ r.visited[j].inferred = OtherPair

\* C20: every chunk yielded has as source the name of the file it was
\* extracted from, which is not empty, and as page the one the loader set,
\* or 0 when the loader set none.
C20_SourceAndPage ==
    \A w \in OneWorker :
        LET r == run[w]
        IN  /\ \A k \in 1..Len(r.yielded) :
                 \E i \in 1..Len(r.visited) :
                    r.visited[i].first <= k /\ k < r.visited[i].first + r.visited[i].n
            /\ \A i \in 1..Len(r.visited) :
                 LET v == r.visited[i]
                 IN  \A p \in 1..v.n :
                        LET c == r.yielded[v.first + p - 1]
                        IN  /\ c.source = v.name
                            /\ c.source # ""
                            /\ v.pages[p] # NoPage => c.page = v.pages[p]
                            /\ v.pages[p] = NoPage => c.page = 0

\* A scan yielded a chunk of a text file, for which the loader sets no
\* page, and the chunk of the second page of a PDF.
C20_Witness ==
    \E w \in OneWorker :
        LET r == run[w]
        IN  /\ r.pc = "ret"
            /\ \E k \in 1..Len(r.yielded) :
                 r.yielded[k].source = "a.txt" /\ r.yielded[k].page = 0
            /\ \E k \in 1..Len(r.yielded) :
                 r.yielded[k].source = "b.pdf" /\ r.yielded[k].page = 1

\* C14: two chunks have the same key exactly when they have the same text
\* and the same source, whatever their modification time and whatever the
\* inferencer answered.
C14_KeyIsContentAndSource ==
    LET chunks == vs \cup UNION {run[w].produced : w \in Workers}
    IN  \A c1, c2 \in chunks :
            IndexKey(c1) = IndexKey(c2) <=> (c1.text = c2.text /\ c1.source = c2.source)

\* C12: at most one execution of run_indexing is active at any time.
C12_RunsSerialized ==
    Cardinality({w \in Workers : run[w].pc # "idle"}) <= 1

\* C15: once a delete of a file has returned and every indexing run has
\* finished, the vector store and the record manager hold entries of that
\* file only if the file exists; and no run is ended by an exception
\* because a file disappeared during its scan.
C15_DeleteIndexConsistent ==
    /\ \A w \in Workers : run[w].pc # "aborted"
    /\ (del.pc = "done" /\ del.status = 200 /\ Quiet /\ ~fs[del.filename].present)
          => /\ \A e \in vs : e.source # del.filename
             /\ \A x \in rm : x[2] # del.filename

====
